---- MODULE Spec2Model ----
(***************************************************************************)
(* Model of the delivery-factory backend: the cart aggregate               *)
(* (models/Cart.js, routes/cart.js), the product catalogue it snapshots    *)
(* (models/Product.js, routes/products.js) and the order status pipeline   *)
(* (models/Order.js, routers/order.js).                                    *)
(*                                                                         *)
(* Money is an integer number of hundredths of a cent (1 dollar = 10000),  *)
(* so that price * (1 - discountPercentage/100) is exact for prices in     *)
(* whole cents and whole percentages, and toFixed(2) is a real rounding.   *)
(* The rounding is the decimal half-up rounding of Number.toFixed; the     *)
(* catalogue below holds no value that lands exactly on half a cent, where *)
(* the binary representation of a double could round the other way.        *)
(* Each route handler is one atomic action: load, mutate, validate, save.  *)
(* save() runs the schema's min validators and throws on a violation; the  *)
(* handler then answers 500 and the collection keeps the loaded document.  *)
(* A line item is its product, price, discountedPrice and quantity; the    *)
(* name and image strings it also copies take no part in any computation.  *)
(* Carts of different users never meet (every handler reads and writes the *)
(* caller's cart only), so one shopper is modelled.                        *)
(* ConcSpec runs the GET /cart and POST /cart/items handlers as a step per  *)
(* await on the store, so that requests interleave between lookup and save; *)
(* the store enforces the unique index on cart.user and save() writes the   *)
(* document the handler holds.                                              *)
(***************************************************************************)
EXTENDS Integers, Sequences, FiniteSets, TLC

\* ------------------------------------------------------------------ bounds
MaxQty == 2          \* largest quantity a request carries
MaxLineQty == 2      \* largest quantity a line item is let to grow to
MaxOrders == 1       \* orders created in a run
NumProcs == 2        \* cart requests that run concurrently

\* --------------------------------------------------------------- constants
Cent == 100                    \* toFixed(2): one cent, in money units
TAX_RATE == 8                  \* 0.08, in percent
SHIPPING_THRESHOLD == 500000   \* 50 dollars
BASE_SHIPPING == 59900         \* 5.99 dollars
WELCOME_RATE == 10             \* 0.1, in percent

Users == {"u1", "u2"}
Shoppers == {"u1"}
Vendor == "u2"
ProductIds == {"p1", "p2"}
UnknownPid == "px"
NoCoupon == "none"
CouponInputs == {"WELCOME10", "FREESHIP", "BOGUS"}
Statuses == {"Processing", "In Transit", "Delivered", "Cancelled"}
StatusInputs == Statuses \cup {"Shipped"}
Absent == "absent"
TrackingInputs == {"", "T1"}
DateInputs == {Absent, "2026-01-01"}

\* Product forms the vendor may PUT for each product: price (money units),
\* discountPercentage, inStock, stockQuantity.
Form(pr, d, s, n) ==
  [price |-> pr, discountPercentage |-> d, inStock |-> s, stockQuantity |-> n]

ProductInputs(pid) ==
  IF pid = "p1"
  THEN { Form(300000, 0, TRUE, 10), Form(250000, 0, TRUE, 0),
         Form(300000, 100, TRUE, 10), Form(250000, 0, FALSE, 10) }
  ELSE { Form(99600, 15, TRUE, 1) }

VARIABLES
  products,   \* catalogue: product id -> product document
  carts,      \* the carts collection: sequence of cart documents
  last,       \* the last cart/product request and its HTTP status
  doc,        \* the in-memory cart document at the end of the last handler
  orders,     \* the orders collection: sequence of order documents
  olast,      \* the last order request and its HTTP status
  inflight    \* the cart requests under way when handlers interleave

vars == <<products, carts, last, doc, orders, olast, inflight>>
cartVars == <<products, carts, last, doc>>
orderVars == <<orders, olast>>

\* ------------------------------------------------------------ pure helpers
\* Number.prototype.toFixed(2) followed by parseFloat: nearest cent, ties
\* away from zero.
toFixed2(x) ==
  IF x >= 0 THEN ((x + Cent \div 2) \div Cent) * Cent
            ELSE -(((-x + Cent \div 2) \div Cent) * Cent)

\* productSchema.virtual("discountedPrice")
discountedPrice(p) == (p.price * (100 - p.discountPercentage)) \div 100

RECURSIVE SumItems(_)
\* items.reduce((sum, item) => sum + item.discountedPrice * item.quantity, 0)
SumItems(items) ==
  IF items = <<>> THEN 0
  ELSE items[1].discountedPrice * items[1].quantity + SumItems(Tail(items))

\* items.findIndex(item => item.product === pid); 0 stands for -1
findIndex(items, pid) ==
  IF \E i \in DOMAIN items : items[i].product = pid
  THEN CHOOSE i \in DOMAIN items :
         /\ items[i].product = pid
         /\ \A j \in DOMAIN items : items[j].product = pid => i <= j
  ELSE 0

\* items.splice(i, 1)
splice(items, i) ==
  [k \in 1..(Len(items) - 1) |-> IF k < i THEN items[k] ELSE items[k + 1]]

\* ------------------------------------------------------------ cart methods
\* new Cart({ user, items: [] }) with the schema defaults
NewCart(u) ==
  [user |-> u, items |-> <<>>, subtotal |-> 0, tax |-> 0, shippingCost |-> 0,
   total |-> 0, couponCode |-> NoCoupon, couponDiscount |-> 0]

\* calculateTotals with an inclusive free-shipping threshold
calculateTotals_inclusive(c) ==
  LET sub  == toFixed2(SumItems(c.items))
      ship == IF sub >= SHIPPING_THRESHOLD THEN 0 ELSE BASE_SHIPPING
      tx   == toFixed2((sub * TAX_RATE) \div 100)
  IN [c EXCEPT !.subtotal = sub,
               !.shippingCost = ship,
               !.tax = tx,
               !.total = toFixed2(sub + tx + ship - c.couponDiscount)]

calculateTotals(c) ==
  LET sub  == toFixed2(SumItems(c.items))
      ship == IF sub > SHIPPING_THRESHOLD THEN 0 ELSE BASE_SHIPPING
      tx   == toFixed2((sub * TAX_RATE) \div 100)
  IN [c EXCEPT !.subtotal = sub,
               !.shippingCost = ship,
               !.tax = tx,
               !.total = toFixed2(sub + tx + ship - c.couponDiscount)]

\* the snapshot pushed for a product not yet in the cart
NewItem(pid, p, q) ==
  [product |-> pid, price |-> p.price,
   discountedPrice |-> IF discountedPrice(p) # 0 THEN discountedPrice(p) ELSE p.price,
   quantity |-> q]

\* addItem that re-prices the line it finds
addItem_refresh(c, pid, p, q) ==
  LET i == findIndex(c.items, pid)
  IN calculateTotals(
       IF i > 0 THEN [c EXCEPT !.items[i] = NewItem(pid, p, @.quantity + q)]
                ELSE [c EXCEPT !.items = Append(@, NewItem(pid, p, q))])

addItem(c, pid, p, q) ==
  LET i == findIndex(c.items, pid)
  IN calculateTotals(
       IF i > 0 THEN [c EXCEPT !.items[i].quantity = @ + q]
                ELSE [c EXCEPT !.items = Append(@, NewItem(pid, p, q))])

\* updateItemQuantity that adds to the quantity instead of setting it
updateItemQuantity_adds(c, pid, q) ==
  LET i == findIndex(c.items, pid)
  IN calculateTotals(
       IF q <= 0 THEN [c EXCEPT !.items = splice(@, i)]
                 ELSE [c EXCEPT !.items[i].quantity = @ + q])

\* defined only when the product is in the cart (the method throws otherwise)
updateItemQuantity(c, pid, q) ==
  LET i == findIndex(c.items, pid)
  IN calculateTotals(
       IF q <= 0 THEN [c EXCEPT !.items = splice(@, i)]
                 ELSE [c EXCEPT !.items[i].quantity = q])

\* defined only when the product is in the cart (the method throws otherwise)
removeItem(c, pid) ==
  calculateTotals([c EXCEPT !.items = splice(@, findIndex(c.items, pid))])

\* clearCart that forgets to reset the coupon discount
clearCart_keepsDiscount(c) ==
  [c EXCEPT !.items = <<>>, !.subtotal = 0, !.tax = 0, !.shippingCost = 0,
            !.total = 0, !.couponCode = NoCoupon]

\* clearCart that forgets to reset the coupon code
clearCart_keepsCode(c) ==
  [c EXCEPT !.items = <<>>, !.subtotal = 0, !.tax = 0, !.shippingCost = 0,
            !.total = 0, !.couponDiscount = 0]

clearCart(c) ==
  [c EXCEPT !.items = <<>>, !.subtotal = 0, !.tax = 0, !.shippingCost = 0,
            !.total = 0, !.couponCode = NoCoupon, !.couponDiscount = 0]

\* apply-coupon whose FREESHIP branch grants the base fee instead of the
\* cart's shippingCost
applyCoupon_baseFee(c, code) ==
  IF code = "WELCOME10"
  THEN calculateTotals([c EXCEPT !.couponCode = code,
                                 !.couponDiscount = toFixed2((c.subtotal * WELCOME_RATE) \div 100)])
  ELSE calculateTotals([c EXCEPT !.couponCode = code,
                                 !.couponDiscount = BASE_SHIPPING])

\* the coupon branches of POST /apply-coupon
applyCoupon(c, code) ==
  IF code = "WELCOME10"
  THEN calculateTotals([c EXCEPT !.couponCode = code,
                                 !.couponDiscount = toFixed2((c.subtotal * WELCOME_RATE) \div 100)])
  ELSE calculateTotals([c EXCEPT !.couponCode = code,
                                 !.couponDiscount = c.shippingCost])

\* the body of DELETE /coupon
removeCoupon(c) ==
  calculateTotals([c EXCEPT !.couponCode = NoCoupon, !.couponDiscount = 0])

\* ------------------------------------------------------------- the store
\* the min validators of cartSchema and cartItemSchema, run by save()
ValidCart(c) ==
  /\ c.subtotal >= 0 /\ c.tax >= 0 /\ c.shippingCost >= 0
  /\ c.total >= 0 /\ c.couponDiscount >= 0
  /\ \A i \in DOMAIN c.items :
       /\ c.items[i].price >= 0
       /\ c.items[i].discountedPrice >= 0
       /\ c.items[i].quantity >= 1

\* Cart.findOne({ user }): index of the first cart of the user, 0 if none
findOne(cs, u) ==
  IF \E i \in DOMAIN cs : cs[i].user = u
  THEN CHOOSE i \in DOMAIN cs :
         /\ cs[i].user = u
         /\ \A j \in DOMAIN cs : cs[j].user = u => i <= j
  ELSE 0

\* the collection after Cart.findOrCreateByUser(u)
findOrCreateByUser(cs, u) ==
  IF findOne(cs, u) > 0 THEN cs ELSE Append(cs, NewCart(u))

\* cart.save() of the mutated document d loaded for user u: the collection
\* keeps the loaded document when validation rejects d
save(cs, u, d) ==
  IF ValidCart(d) THEN [cs EXCEPT ![findOne(cs, u)] = d] ELSE cs

\* a request, the quantity it applied (0 when it applied none), its HTTP
\* status, and what the cart c it loaded held
Req(op, u, pid, q, status, c) ==
  [op |-> op, user |-> u, pid |-> pid, quantity |-> q, status |-> status,
   lines |-> Len(c.items), coupon |-> c.couponCode]

\* the tail shared by the handlers: save d, answer 200, or 500 when save throws
Finish(op, u, pid, q, cs, d) ==
  /\ carts' = save(cs, u, d)
  /\ doc' = d
  /\ last' = Req(op, u, pid, q, IF ValidCart(d) THEN 200 ELSE 500, cs[findOne(cs, u)])

\* --------------------------------------------------------- cart handlers
\* GET /cart
GetCart(u) ==
  LET cs == findOrCreateByUser(carts, u)
  IN /\ carts' = cs
     /\ doc' = cs[findOne(cs, u)]
     /\ last' = Req("getCart", u, UnknownPid, 0, 200, cs[findOne(cs, u)])
     /\ UNCHANGED <<products, orderVars, inflight>>

\* POST /cart/items
AddItem(u, pid, q) ==
  /\ IF pid \notin DOMAIN products
     THEN /\ last' = Req("addItem", u, pid, 0, 404, NewCart(u))
          /\ UNCHANGED <<carts, doc>>
     ELSE IF \/ ~products[pid].inStock
             \/ (products[pid].stockQuantity # 0 /\ products[pid].stockQuantity < q)
     THEN /\ last' = Req("addItem", u, pid, 0, 400, NewCart(u))
          /\ UNCHANGED <<carts, doc>>
     ELSE LET cs == findOrCreateByUser(carts, u)
              c  == cs[findOne(cs, u)]
          IN /\ findIndex(c.items, pid) > 0 => c.items[findIndex(c.items, pid)].quantity + q <= MaxLineQty
             /\ Finish("addItem", u, pid, q, cs, addItem(c, pid, products[pid], q))
  /\ UNCHANGED <<products, orderVars, inflight>>

\* PATCH /cart/items/:productId
UpdateItemQuantity(u, pid, q) ==
  LET cs == findOrCreateByUser(carts, u)
      c  == cs[findOne(cs, u)]
  IN /\ IF findIndex(c.items, pid) = 0
        THEN /\ carts' = cs
             /\ doc' = c
             /\ last' = Req("updateItemQuantity", u, pid, 0, 404, c)
        ELSE Finish("updateItemQuantity", u, pid, q, cs, updateItemQuantity(c, pid, q))
     /\ UNCHANGED <<products, orderVars, inflight>>

\* DELETE /cart/items/:productId without the not-found check: splice(-1, 1)
\* drops the last line
RemoveItem_unchecked(u, pid) ==
  LET cs == findOrCreateByUser(carts, u)
      c  == cs[findOne(cs, u)]
      i  == IF findIndex(c.items, pid) = 0 THEN Len(c.items) ELSE findIndex(c.items, pid)
  IN /\ Finish("removeItem", u, pid, 0, cs,
               calculateTotals([c EXCEPT !.items = IF i = 0 THEN @ ELSE splice(@, i)]))
     /\ UNCHANGED <<products, orderVars, inflight>>

\* DELETE /cart/items/:productId
RemoveItem(u, pid) ==
  LET cs == findOrCreateByUser(carts, u)
      c  == cs[findOne(cs, u)]
  IN /\ IF findIndex(c.items, pid) = 0
        THEN /\ carts' = cs
             /\ doc' = c
             /\ last' = Req("removeItem", u, pid, 0, 404, c)
        ELSE Finish("removeItem", u, pid, 0, cs, removeItem(c, pid))
     /\ UNCHANGED <<products, orderVars, inflight>>

\* POST /cart/apply-coupon; the coupon code travels in the pid slot of last
ApplyCoupon(u, code) ==
  LET cs == findOrCreateByUser(carts, u)
      c  == cs[findOne(cs, u)]
  IN /\ IF code \in {"WELCOME10", "FREESHIP"}
        THEN Finish("applyCoupon", u, code, 0, cs, applyCoupon(c, code))
        ELSE /\ carts' = cs
             /\ doc' = c
             /\ last' = Req("applyCoupon", u, code, 0, 400, c)
     /\ UNCHANGED <<products, orderVars, inflight>>

\* DELETE /cart/coupon
RemoveCoupon(u) ==
  LET cs == findOrCreateByUser(carts, u)
      c  == cs[findOne(cs, u)]
  IN /\ Finish("removeCoupon", u, UnknownPid, 0, cs, removeCoupon(c))
     /\ UNCHANGED <<products, orderVars, inflight>>

\* DELETE /cart
ClearCart(u) ==
  LET cs == findOrCreateByUser(carts, u)
      c  == cs[findOne(cs, u)]
  IN /\ Finish("clearCart", u, UnknownPid, 0, cs, clearCart(c))
     /\ UNCHANGED <<products, orderVars, inflight>>

\* PUT /products/:id by the product's vendor
UpdateProduct(pid, form) ==
  /\ products' = [products EXCEPT ![pid] = form]
  /\ last' = Req("updateProduct", Vendor, pid, 0, 200, NewCart(Vendor))
  /\ UNCHANGED <<carts, doc, orderVars, inflight>>


\* ------------------------------------------------------------- orders
OReq(op, u, id, status) == [op |-> op, user |-> u, id |-> id, status |-> status]

\* new Order({ userId: req.user.id, ...req.body }) with the schema defaults:
\* a field of the body replaces the one written before the spread
NewOrder(caller, body) ==
  [userId |-> IF body.userId # Absent THEN body.userId ELSE caller,
   status |-> IF body.status # Absent THEN body.status ELSE "Processing",
   trackingNumber |-> Absent,
   estimatedDeliveryDate |-> Absent]

\* the enum validator of orderSchema.status, run by save()
ValidOrder(o) == o.status \in Statuses

\* POST /orders
CreateOrder(caller, body) ==
  /\ Len(orders) < MaxOrders
  /\ IF ValidOrder(NewOrder(caller, body))
     THEN /\ orders' = Append(orders, NewOrder(caller, body))
          /\ olast' = OReq("create", caller, Len(orders) + 1, 201)
     ELSE /\ orders' = orders
          /\ olast' = OReq("create", caller, 0, 500)
  /\ UNCHANGED <<cartVars, inflight>>

\* PATCH /orders/:id/status
UpdateStatus(caller, id, s) ==
  /\ IF s \notin Statuses
     THEN /\ olast' = OReq("status", caller, id, 400)
          /\ orders' = orders
     ELSE IF id \notin DOMAIN orders
     THEN /\ olast' = OReq("status", caller, id, 404)
          /\ orders' = orders
     ELSE IF orders[id].userId # caller
     THEN /\ olast' = OReq("status", caller, id, 403)
          /\ orders' = orders
     ELSE /\ orders' = [orders EXCEPT ![id].status = s]
          /\ olast' = OReq("status", caller, id, 200)
  /\ UNCHANGED <<cartVars, inflight>>

\* POST /orders/:id/cancel without the Delivered check
CancelOrder_unchecked(caller, id) ==
  /\ IF id \notin DOMAIN orders
     THEN /\ olast' = OReq("cancel", caller, id, 404)
          /\ orders' = orders
     ELSE IF orders[id].userId # caller
     THEN /\ olast' = OReq("cancel", caller, id, 403)
          /\ orders' = orders
     ELSE /\ orders' = [orders EXCEPT ![id].status = "Cancelled"]
          /\ olast' = OReq("cancel", caller, id, 200)
  /\ UNCHANGED <<cartVars, inflight>>

\* POST /orders/:id/cancel
CancelOrder(caller, id) ==
  /\ IF id \notin DOMAIN orders
     THEN /\ olast' = OReq("cancel", caller, id, 404)
          /\ orders' = orders
     ELSE IF orders[id].userId # caller
     THEN /\ olast' = OReq("cancel", caller, id, 403)
          /\ orders' = orders
     ELSE IF orders[id].status = "Delivered"
     THEN /\ olast' = OReq("cancel", caller, id, 400)
          /\ orders' = orders
     ELSE /\ orders' = [orders EXCEPT ![id].status = "Cancelled"]
          /\ olast' = OReq("cancel", caller, id, 200)
  /\ UNCHANGED <<cartVars, inflight>>

\* PATCH /orders/:id/tracking without the owner check
UpdateTracking_anyCaller(caller, id, tn, date) ==
  /\ IF tn = ""
     THEN /\ olast' = OReq("tracking", caller, id, 400)
          /\ orders' = orders
     ELSE IF id \notin DOMAIN orders
     THEN /\ olast' = OReq("tracking", caller, id, 404)
          /\ orders' = orders
     ELSE /\ orders' = [orders EXCEPT
                          ![id].trackingNumber = tn,
                          ![id].estimatedDeliveryDate = IF date # Absent THEN date ELSE @]
          /\ olast' = OReq("tracking", caller, id, 200)
  /\ UNCHANGED <<cartVars, inflight>>

\* PATCH /orders/:id/tracking
UpdateTracking(caller, id, tn, date) ==
  /\ IF tn = ""
     THEN /\ olast' = OReq("tracking", caller, id, 400)
          /\ orders' = orders
     ELSE IF id \notin DOMAIN orders
     THEN /\ olast' = OReq("tracking", caller, id, 404)
          /\ orders' = orders
     ELSE IF orders[id].userId # caller
     THEN /\ olast' = OReq("tracking", caller, id, 403)
          /\ orders' = orders
     ELSE /\ orders' = [orders EXCEPT
                          ![id].trackingNumber = tn,
                          ![id].estimatedDeliveryDate = IF date # Absent THEN date ELSE @]
          /\ olast' = OReq("tracking", caller, id, 200)
  /\ UNCHANGED <<cartVars, inflight>>

\* ------------------------------------------- interleaved cart handlers
Procs == 1..NumProcs

\* a request under way: where its handler stands, what it was asked, the cart
\* document it got from findOrCreateByUser (<<>> before that), and its HTTP
\* status when done
Flight(pc, op, u, pid, q, loaded, status) ==
  [pc |-> pc, op |-> op, user |-> u, pid |-> pid, quantity |-> q,
   loaded |-> loaded, status |-> status]

Idle == Flight("idle", "none", "u1", UnknownPid, 0, <<>>, 0)

\* the request arrives; POST /items looks the product up and checks the stock
CStart(p, op, u, pid, q) ==
  /\ inflight[p].pc = "idle"
  /\ LET go(pc, status) == Flight(pc, op, u, pid, q, <<>>, status)
     IN inflight' = [inflight EXCEPT ![p] =
          IF op = "getCart" THEN go("find", 0)
          ELSE IF pid \notin DOMAIN products THEN go("done", 404)
          ELSE IF \/ ~products[pid].inStock
                  \/ (products[pid].stockQuantity # 0 /\ products[pid].stockQuantity < q)
          THEN go("done", 400)
          ELSE go("find", 0)]
  /\ UNCHANGED <<cartVars, orderVars>>

\* after the lookup: the handler goes on with the cart it has
Proceed(r, c) ==
  IF r.op = "getCart"
  THEN [r EXCEPT !.pc = "done", !.status = 200, !.loaded = <<c>>]
  ELSE [r EXCEPT !.pc = "save", !.loaded = <<c>>]

\* await this.findOne({ user: userId })
CFind(p) ==
  /\ inflight[p].pc = "find"
  /\ LET i == findOne(carts, inflight[p].user)
     IN inflight' = [inflight EXCEPT ![p] =
          IF i > 0 THEN Proceed(@, carts[i]) ELSE [@ EXCEPT !.pc = "insert"]]
  /\ UNCHANGED <<cartVars, orderVars>>

\* the insert without the unique index on user
CInsert_noIndex(p) ==
  /\ inflight[p].pc = "insert"
  /\ carts' = Append(carts, NewCart(inflight[p].user))
  /\ inflight' = [inflight EXCEPT ![p] = Proceed(@, NewCart(inflight[p].user))]
  /\ UNCHANGED <<products, last, doc, orderVars>>

\* await cart.save() of the new cart: the unique index on user makes the
\* store reject the insert when the user has a cart by now, and the handler
\* answers 500
CInsert(p) ==
  /\ inflight[p].pc = "insert"
  /\ IF findOne(carts, inflight[p].user) > 0
     THEN /\ carts' = carts
          /\ inflight' = [inflight EXCEPT ![p].pc = "done", ![p].status = 500]
     ELSE /\ carts' = Append(carts, NewCart(inflight[p].user))
          /\ inflight' = [inflight EXCEPT ![p] = Proceed(@, NewCart(inflight[p].user))]
  /\ UNCHANGED <<products, last, doc, orderVars>>

\* the save guarded by a version check: it fails when the stored cart is no
\* longer the one the handler loaded
CSave_versioned(p) ==
  /\ inflight[p].pc = "save"
  /\ LET r == inflight[p]
         d == addItem(r.loaded[1], r.pid, products[r.pid], r.quantity)
         ok == ValidCart(d) /\ carts[findOne(carts, r.user)] = r.loaded[1]
     IN /\ carts' = IF ok THEN [carts EXCEPT ![findOne(carts, r.user)] = d] ELSE carts
        /\ inflight' = [inflight EXCEPT ![p].pc = "done",
                                        ![p].status = IF ok THEN 200 ELSE 500]
  /\ UNCHANGED <<products, last, doc, orderVars>>

\* await cart.addItem(product, quantity); await cart.save()
CSave(p) ==
  /\ inflight[p].pc = "save"
  /\ LET r == inflight[p]
         d == addItem(r.loaded[1], r.pid, products[r.pid], r.quantity)
     IN /\ carts' = save(carts, r.user, d)
        /\ inflight' = [inflight EXCEPT ![p].pc = "done",
                                        ![p].status = IF ValidCart(d) THEN 200 ELSE 500]
  /\ UNCHANGED <<products, last, doc, orderVars>>

\* ------------------------------------------------------------------ specs
InitProducts ==
  [p \in ProductIds |-> IF p = "p1" THEN Form(300000, 0, TRUE, 10) ELSE Form(99600, 15, TRUE, 1)]

Init ==
  /\ products = InitProducts
  /\ carts = <<>>
  /\ last = Req("none", "u1", UnknownPid, 0, 0, NewCart("u1"))
  /\ doc = NewCart("u1")
  /\ orders = <<>>
  /\ olast = OReq("none", "u1", 0, 0)
  /\ inflight = [p \in Procs |-> Idle]

Next ==
  \/ \E u \in Shoppers : GetCart(u)
  \/ \E u \in Shoppers, pid \in ProductIds \cup {UnknownPid}, q \in 1..MaxQty : AddItem(u, pid, q)
  \/ \E u \in Shoppers, pid \in ProductIds, q \in 0..MaxQty : UpdateItemQuantity(u, pid, q)
  \/ \E u \in Shoppers, pid \in ProductIds : RemoveItem(u, pid)
  \/ \E u \in Shoppers, code \in CouponInputs : ApplyCoupon(u, code)
  \/ \E u \in Shoppers : RemoveCoupon(u)
  \/ \E u \in Shoppers : ClearCart(u)
  \/ \E pid \in ProductIds : \E form \in ProductInputs(pid) : UpdateProduct(pid, form)

Spec == Init /\ [][Next]_vars

OrderBodies == [userId : Users \cup {Absent}, status : StatusInputs \cup {Absent}]

OrderNext ==
  \/ \E u \in Users, body \in OrderBodies : CreateOrder(u, body)
  \/ \E u \in Users, id \in 1..MaxOrders, s \in StatusInputs : UpdateStatus(u, id, s)
  \/ \E u \in Users, id \in 1..MaxOrders : CancelOrder(u, id)
  \/ \E u \in Users, id \in 1..MaxOrders, tn \in TrackingInputs, date \in DateInputs :
       UpdateTracking(u, id, tn, date)

OrderSpec == Init /\ [][OrderNext]_vars

\* the carts collection when the requests arrive: empty, or the shopper's
\* cart with one p1 already in it
ConcInit ==
  /\ products = InitProducts
  /\ carts \in {<<>>, <<addItem(NewCart("u1"), "p1", InitProducts["p1"], 1)>>}
  /\ last = Req("none", "u1", UnknownPid, 0, 0, NewCart("u1"))
  /\ doc = NewCart("u1")
  /\ orders = <<>>
  /\ olast = OReq("none", "u1", 0, 0)
  /\ inflight = [p \in Procs |-> Idle]

ConcNext ==
  \/ \E p \in Procs, u \in Shoppers : CStart(p, "getCart", u, UnknownPid, 0)
  \/ \E p \in Procs, u \in Shoppers, pid \in ProductIds \cup {UnknownPid}, q \in 1..MaxQty :
       CStart(p, "addItem", u, pid, q)
  \/ \E p \in Procs : CFind(p)
  \/ \E p \in Procs : CInsert(p)
  \/ \E p \in Procs : CSave(p)

ConcSpec == ConcInit /\ [][ConcNext]_vars

\* ---------------------------------------------------------------- claims
\* helpers of the properties, stated without the operators of the model
Range(f) == {f[i] : i \in DOMAIN f}
HasCart(cs, u) == \E c \in Range(cs) : c.user = u
CartOf(cs, u) == CHOOSE c \in Range(cs) : c.user = u
Lines(c, pid) == {i \in DOMAIN c.items : c.items[i].product = pid}
\* r is x rounded to whole cents, a tie going away from zero
RoundsTo(x, r) ==
  /\ r % Cent = 0
  /\ IF x >= 0 THEN r * 2 - Cent <= x * 2 /\ x * 2 < r * 2 + Cent
               ELSE r * 2 - Cent < x * 2 /\ x * 2 <= r * 2 + Cent
RECURSIVE LineSum(_, _)
LineSum(items, n) ==
  IF n = 0 THEN 0
  ELSE LineSum(items, n - 1) + items[n].discountedPrice * items[n].quantity
\* the handlers that end with calculateTotals on the in-memory document
Recalculated ==
  /\ last.op \in {"addItem", "updateItemQuantity", "removeItem", "applyCoupon", "removeCoupon"}
  /\ last.status \in {200, 500}

\* C1: in every persisted cart, total is subtotal + tax + shippingCost -
\* couponDiscount rounded to cents: the stored total is never stale.
C1_TotalNeverStale ==
  \A c \in Range(carts) :
    RoundsTo(c.subtotal + c.tax + c.shippingCost - c.couponDiscount, c.total)

\* C1 witness: a persisted cart with items and a non-zero coupon discount
\* after a successful coupon application.
C1_Witness ==
  /\ last.op = "applyCoupon" /\ last.status = 200
  /\ \E c \in Range(carts) : c.items # <<>> /\ c.couponDiscount > 0 /\ c.total > 0

\* C2: subtotal, tax, shippingCost, total and couponDiscount computed by a
\* handler are never negative, and no save of a mutated cart is rejected by
\* the min-0 validators.
C2_NonNegativeNeverRejected ==
  /\ doc.subtotal >= 0 /\ doc.tax >= 0 /\ doc.shippingCost >= 0
  /\ doc.total >= 0 /\ doc.couponDiscount >= 0
  /\ last.status # 500

\* C3: after calculateTotals the document has subtotal = the sum of
\* discountedPrice * quantity rounded to cents, shippingCost = 0 exactly when
\* subtotal is strictly above 50.00 and 5.99 otherwise, tax = 8% of subtotal
\* rounded to cents, total = subtotal + tax + shippingCost - couponDiscount
\* rounded to cents; 30.00 x 2 without coupon gives 60.00 / 0 / 4.80 / 64.80.
C3_CalculateTotals ==
  Recalculated =>
    /\ RoundsTo(LineSum(doc.items, Len(doc.items)), doc.subtotal)
    /\ doc.shippingCost = IF doc.subtotal > 500000 THEN 0 ELSE 59900
    /\ doc.subtotal = 500000 => doc.shippingCost = 59900
    /\ doc.tax % Cent = 0
    /\ 100 * doc.tax - 50 * Cent <= 8 * doc.subtotal
    /\ 8 * doc.subtotal < 100 * doc.tax + 50 * Cent
    /\ RoundsTo(doc.subtotal + doc.tax + doc.shippingCost - doc.couponDiscount, doc.total)
    /\ ( /\ Len(doc.items) = 1 /\ doc.items[1].discountedPrice = 300000
         /\ doc.items[1].quantity = 2 /\ doc.couponDiscount = 0 )
       => ( /\ doc.subtotal = 600000 /\ doc.shippingCost = 0
            /\ doc.tax = 48000 /\ doc.total = 648000 )

\* C3 witness: totals recalculated for a cart whose subtotal is exactly 50.00
\* and whose raw sum needed no rounding, so the base fee applies.
C3_Witness ==
  /\ Recalculated
  /\ doc.subtotal = 500000 /\ doc.shippingCost = 59900 /\ doc.tax = 40000

\* the cart the handler of a request by u loads: the persisted one, or the
\* document findOrCreate has just created
Loaded(cs, u) ==
  IF HasCart(cs, u) THEN CartOf(cs, u)
  ELSE [user |-> u, items |-> <<>>, subtotal |-> 0, tax |-> 0, shippingCost |-> 0,
        total |-> 0, couponCode |-> NoCoupon, couponDiscount |-> 0]
LineOf(c, pid) == c.items[CHOOSE i \in DOMAIN c.items : c.items[i].product = pid]

\* C4: a successful add of quantity q of a product leaves exactly one line for
\* the product; when the cart already held a line for it, the quantity is the
\* old one plus q and price and discountedPrice are those of the old line,
\* whatever the catalogue says now.
C4_AddSameProduct ==
  [][ (last'.op = "addItem" /\ last'.status = 200) =>
        LET u == last'.user
            pid == last'.pid
            old == Loaded(carts, u)
            new == CartOf(carts', u)
        IN /\ Cardinality(Lines(new, pid)) = 1
           /\ IF Lines(old, pid) # {}
              THEN /\ LineOf(new, pid).quantity = LineOf(old, pid).quantity + last'.quantity
                   /\ LineOf(new, pid).price = LineOf(old, pid).price
                   /\ LineOf(new, pid).discountedPrice = LineOf(old, pid).discountedPrice
              ELSE /\ LineOf(new, pid).quantity = last'.quantity
                   /\ LineOf(new, pid).price = products[pid].price ]_vars

\* C4 witness: a second add has grown a line beyond the quantity of the
\* request, and the line still carries a price the catalogue no longer has.
C4_Witness ==
  /\ last.op = "addItem" /\ last.status = 200
  /\ \E c \in Range(carts) : \E i \in DOMAIN c.items :
       /\ c.items[i].product = last.pid
       /\ c.items[i].quantity = 2 /\ last.quantity = 1
       /\ c.items[i].price # products[last.pid].price

\* C5: after updateItemQuantity(pid, 0) on a cart holding pid the document
\* has no line for pid; after updateItemQuantity(pid, n), n > 0, its line has
\* quantity exactly n; no persisted line has a quantity below 1.
C5_UpdateItemQuantity ==
  /\ (last.op = "updateItemQuantity" /\ last.status \in {200, 500}) =>
        IF last.quantity = 0
        THEN Lines(doc, last.pid) = {}
        ELSE /\ Cardinality(Lines(doc, last.pid)) = 1
             /\ LineOf(doc, last.pid).quantity = last.quantity
  /\ \A c \in Range(carts) : \A i \in DOMAIN c.items : c.items[i].quantity >= 1

\* C5 witness: a quantity-0 update has been saved and the other product's
\* line is all that is left in the persisted cart.
C5_Witness ==
  /\ last.op = "updateItemQuantity" /\ last.status = 200 /\ last.quantity = 0
  /\ last.lines = 2
  /\ \E c \in Range(carts) :
       /\ c.user = last.user /\ Len(c.items) = 1 /\ Lines(c, last.pid) = {}

\* C6 (as claimed): a removeItem or updateItemQuantity request for a product
\* that is not in the caller's cart answers 404 and leaves the carts
\* collection exactly as it was.
C6_NotFoundLeavesStoreUntouched ==
  [][ ( /\ last'.op \in {"removeItem", "updateItemQuantity"}
        /\ Lines(Loaded(carts, last'.user), last'.pid) = {} )
      => (last'.status = 404 /\ carts' = carts) ]_vars

\* C6 (amended): such a request answers 404 and leaves an existing cart of the
\* caller exactly as it was; when the caller has no cart yet, the collection
\* gains the caller's new empty cart and nothing else changes.
C6_NotFoundKeepsCart ==
  [][ ( /\ last'.op \in {"removeItem", "updateItemQuantity"}
        /\ Lines(Loaded(carts, last'.user), last'.pid) = {} )
      => /\ last'.status = 404
         /\ IF HasCart(carts, last'.user)
            THEN carts' = carts
            ELSE carts' = Append(carts, Loaded(carts, last'.user)) ]_vars

\* C6 witness: a 404 for a product that is absent from a cart that holds
\* another product.
C6_Witness ==
  /\ last.op \in {"removeItem", "updateItemQuantity"} /\ last.status = 404
  /\ last.lines > 0
  /\ last.pid \in ProductIds
  /\ \E c \in Range(carts) :
       /\ c.user = last.user /\ c.items # <<>> /\ Lines(c, last.pid) = {}


\* what C7 says of the coupon fields, apart from the total under FREESHIP
C7_CouponFields ==
  LET pre == Loaded(carts, last'.user)
  IN /\ (last'.op = "applyCoupon" /\ last'.pid = "WELCOME10") =>
          /\ last'.status = 200
          /\ doc'.couponCode = "WELCOME10"
          /\ doc'.couponDiscount % Cent = 0
          /\ 10 * doc'.couponDiscount - 5 * Cent <= pre.subtotal
          /\ pre.subtotal < 10 * doc'.couponDiscount + 5 * Cent
          /\ CartOf(carts', last'.user) = doc'
     /\ (last'.op = "applyCoupon" /\ last'.pid = "FREESHIP") =>
          /\ last'.status = 200
          /\ doc'.couponCode = "FREESHIP"
          /\ doc'.couponDiscount = pre.shippingCost
          /\ CartOf(carts', last'.user) = doc'
     /\ last'.op \in {"addItem", "updateItemQuantity", "removeItem"} =>
          /\ Loaded(carts', last'.user).couponCode = pre.couponCode
          /\ Loaded(carts', last'.user).couponDiscount = pre.couponDiscount
          /\ last'.status \in {200, 500} =>
               (doc'.couponCode = pre.couponCode /\ doc'.couponDiscount = pre.couponDiscount)

\* C7 (as claimed): WELCOME10 sets couponDiscount to 10% of the subtotal at
\* application, FREESHIP sets it to the shippingCost at application, which is
\* 0 when shipping is already free and then leaves total unchanged; later
\* addItem, updateItemQuantity and removeItem leave couponCode and
\* couponDiscount as they are.
C7_CouponAsClaimed ==
  [][ /\ C7_CouponFields
      /\ ( /\ last'.op = "applyCoupon" /\ last'.pid = "FREESHIP"
            /\ Loaded(carts, last'.user).shippingCost = 0 )
         => doc'.total = Loaded(carts, last'.user).total ]_vars

\* C7 (amended): as claimed, but FREESHIP on a cart whose shippingCost is 0
\* leaves total unchanged only when the cart holds items and no coupon
\* discount was in effect; otherwise total becomes subtotal + tax +
\* shippingCost of the recalculated cart.
C7_CouponFrozen ==
  [][ /\ C7_CouponFields
      /\ ( /\ last'.op = "applyCoupon" /\ last'.pid = "FREESHIP"
            /\ Loaded(carts, last'.user).shippingCost = 0 )
         => /\ doc'.couponDiscount = 0
            /\ doc'.total = doc'.subtotal + doc'.tax + doc'.shippingCost
            /\ ( /\ Loaded(carts, last'.user).items # <<>>
                  /\ Loaded(carts, last'.user).couponDiscount = 0 )
               => doc'.total = Loaded(carts, last'.user).total ]_vars

\* C7 witness: an item request has been saved on a cart that carries a
\* WELCOME10 discount which is no longer 10% of its subtotal.
C7_Witness ==
  /\ last.op \in {"addItem", "updateItemQuantity", "removeItem"}
  /\ last.status = 200 /\ last.coupon = "WELCOME10"
  /\ \E c \in Range(carts) :
       /\ c.couponCode = "WELCOME10" /\ c.couponDiscount > 0
       /\ c.couponDiscount * 10 > c.subtotal + 5 * Cent

\* C8: clearCart on any cart succeeds and leaves the persisted cart with no
\* items, subtotal, tax, shippingCost, total and couponDiscount 0, no coupon.
C8_ClearCart ==
  last.op = "clearCart" =>
    /\ last.status = 200
    /\ HasCart(carts, last.user)
    /\ LET c == CartOf(carts, last.user)
       IN /\ c.items = <<>>
          /\ c.subtotal = 0 /\ c.tax = 0 /\ c.shippingCost = 0 /\ c.total = 0
          /\ c.couponDiscount = 0 /\ c.couponCode = NoCoupon
          /\ doc = c

\* C8 witness: clearCart has run on a cart that held two lines and a coupon.
C8_Witness ==
  /\ last.op = "clearCart" /\ last.status = 200
  /\ last.lines = 2 /\ last.coupon = "WELCOME10"
  /\ HasCart(carts, last.user) /\ CartOf(carts, last.user).items = <<>>

\* C9: a cancel request by the owner of an existing order answers 400 and
\* leaves the status Delivered when the order is Delivered; in every other
\* status it answers 200 and the status becomes Cancelled.
C9_CancelByOwner ==
  [][ ( /\ olast'.op = "cancel"
        /\ olast'.id \in DOMAIN orders
        /\ orders[olast'.id].userId = olast'.user )
      => IF orders[olast'.id].status = "Delivered"
         THEN olast'.status = 400 /\ orders' = orders
         ELSE /\ olast'.status = 200
              /\ orders'[olast'.id].status = "Cancelled"
              /\ \A i \in DOMAIN orders : i # olast'.id => orders'[i] = orders[i] ]_vars

\* C9 witness: the owner's cancel of a Delivered order was answered 400.
C9_Witness ==
  /\ olast.op = "cancel" /\ olast.status = 400
  /\ olast.id \in DOMAIN orders
  /\ orders[olast.id].status = "Delivered"
  /\ orders[olast.id].userId = olast.user

\* C10: once an order is Cancelled or Delivered, no status-update, cancel or
\* tracking request changes its status.
C10_TerminalStatuses ==
  [][ \A i \in DOMAIN orders :
        orders[i].status \in {"Cancelled", "Delivered"}
          => orders'[i].status = orders[i].status ]_vars

\* C11: every order created through POST /orders starts in status
\* Processing, whatever the request body holds.
C11_CreatedProcessing ==
  (olast.op = "create" /\ olast.status = 201) =>
    orders[olast.id].status = "Processing"

\* a status-update, cancel or tracking step aimed at an existing order by a
\* caller who is not its owner
C12_ForeignRequest ==
  /\ olast'.op \in {"status", "cancel", "tracking"}
  /\ olast'.id \in DOMAIN orders
  /\ orders[olast'.id].userId # olast'.user

\* an order's status, trackingNumber and estimatedDeliveryDate change only in
\* a step taken by its owner
C12_OnlyOwnerChanges ==
  \/ orders' = orders
  \/ \A i \in DOMAIN orders :
       ( \/ orders'[i].status # orders[i].status
         \/ orders'[i].trackingNumber # orders[i].trackingNumber
         \/ orders'[i].estimatedDeliveryDate # orders[i].estimatedDeliveryDate )
       => (olast'.user = orders[i].userId /\ olast'.id = i /\ olast'.status = 200)

C17_CreatedForCaller ==
  (olast.op = "create" /\ olast.status = 201) =>
    orders[olast.id].userId = olast.user

\* C15: the line addItem appends for a product carries discountedPrice =
\* price * (1 - discountPercentage/100) of the product at that moment, for
\* every discountPercentage in 0..100, and so never more than its price.
C15_SnapshotDiscountedPrice ==
  [][ ( /\ last'.op = "addItem" /\ last'.status = 200
        /\ Lines(Loaded(carts, last'.user), last'.pid) = {} )
      => LET it == LineOf(CartOf(carts', last'.user), last'.pid)
             p  == products[last'.pid]
         IN /\ it.price = p.price
            /\ it.discountedPrice * 100 = p.price * (100 - p.discountPercentage)
            /\ it.discountedPrice <= it.price ]_vars

\* C16: POST /cart/items for a catalogued product is answered 400 and leaves
\* the carts alone whenever the product is not inStock or its stockQuantity
\* is below the requested quantity; the item is added only when the product
\* is inStock and stockQuantity is at least the requested quantity.
C16_StockChecked ==
  [][ (last'.op = "addItem" /\ last'.pid \in ProductIds) =>
        /\ last'.status = 400 => carts' = carts
        /\ last'.status # 400 =>
             /\ products[last'.pid].inStock
             /\ products[last'.pid].stockQuantity >= last'.quantity ]_vars

\* C18: a persisted cart with no items and no coupon has subtotal, tax,
\* shippingCost and total 0, however it came to be empty.
C18_EmptyCartIsFree ==
  \A c \in Range(carts) :
    (c.items = <<>> /\ c.couponCode = NoCoupon) =>
      (c.subtotal = 0 /\ c.tax = 0 /\ c.shippingCost = 0 /\ c.total = 0)

\* C13: at most one cart exists per user in every state of the store, also
\* when several findOrCreateByUser calls for a user without a cart interleave
\* between the lookup and the save: the store rejects the second insert.
C13_OneCartPerUser ==
  \A u \in Users : Cardinality({i \in DOMAIN carts : carts[i].user = u}) <= 1

\* two requests found no cart; one inserted it, the other's insert was
\* rejected and answered 500
C13_Witness ==
  \E p, r \in Procs :
    /\ p # r
    /\ inflight[p].pc = "done" /\ inflight[p].status = 500
    /\ inflight[r].pc = "done" /\ inflight[r].status = 200
    /\ inflight[r].loaded # <<>> /\ inflight[r].loaded[1].items = <<>>
    /\ inflight[p].user = inflight[r].user
    /\ Len(carts) = 1

\* C14: concurrent add-item requests of one user interleave so that both are
\* answered 200 and the stored cart reflects one addition only. No lock or
\* version check: a save always succeeds and stores the line as the saving
\* request computed it from the cart it loaded, whatever the store holds by
\* then.
C14_LastWriteWins ==
  [][\A p \in Procs :
       (inflight[p].pc = "save" /\ inflight'[p].pc = "done") =>
         LET r == inflight[p]
             had == IF Lines(r.loaded[1], r.pid) = {} THEN 0
                    ELSE LineOf(r.loaded[1], r.pid).quantity
         IN /\ inflight'[p].status = 200
            /\ LineOf(CartOf(carts', r.user), r.pid).quantity = had + r.quantity]_vars

\* the lost update: both requests loaded the cart holding one p1, both were
\* answered 200, and the stored line counts one of the two additions
C14_Witness ==
  \E p, r \in Procs :
    /\ p # r
    /\ \A x \in {p, r} :
         /\ inflight[x].pc = "done" /\ inflight[x].op = "addItem"
         /\ inflight[x].status = 200 /\ inflight[x].pid = "p1"
         /\ inflight[x].user = "u1"
         /\ Lines(inflight[x].loaded[1], "p1") # {}
         /\ LineOf(inflight[x].loaded[1], "p1").quantity = 1
    /\ LineOf(CartOf(carts, "u1"), "p1").quantity = 1 + inflight[p].quantity
    /\ LineOf(CartOf(carts, "u1"), "p1").quantity
         < 1 + inflight[p].quantity + inflight[r].quantity

====
